---- MODULE Spec2Model ----
(***************************************************************************)
(* RestAI (app/main.py): the project, embeddings and ingestion endpoints   *)
(* of the FastAPI application, as a state machine over request slots.      *)
(*                                                                         *)
(* `async def` handlers contain no await: the event loop runs each of them *)
(* to completion, so each is one atomic action.  `def` handlers run in the *)
(* thread pool: each is a sequence of steps, one per blocking call, and    *)
(* the steps of different requests interleave.                             *)
(***************************************************************************)
EXTENDS Integers, FiniteSets, Sequences, TLC

\* ---------------------------------------------------------------- bounds
MaxDocs == 2     \* documents one loader run produces at most
MaxIds == 3      \* chunk ids the store assigns before the model stops ingesting
MaxOps == 4      \* requests the clients issue in one run
MaxChats == 2    \* chat sessions the clients open in one run

\* ---------------------------------------------------------------- inputs
Slots == {"t1", "t2", "t3"}    \* the requests in flight at the same time
Two == {"t1", "t2"}            \* two clients
Names == {"p1", "p2"}
Users == {"alice", "bob"}
Urls == {<<"http:", "a">>, <<"https:", "b">>}
Files == {"a.txt", "b.xyz"}                 \* the entries of an upload directory
PlainNames == {<<"a.txt">>, <<"b.xyz">>}    \* file names, as path segments
FileNames == PlainNames \cup {<<"..", "p2", "a.txt">>}
Contents == {"c1", "c2"}
UPLOADS_PATH == "uploads"

\* ProjectModel (models.py): name, embeddings, llm, system
ProjectModel(n, l, s) == [name |-> n, embeddings |-> "e1", llm |-> l, system |-> s]
Llms == {"l1", "l2"}
Systems == {"", "persona"}
NoModel == [name |-> "", embeddings |-> "", llm |-> "", system |-> ""]

\* QuestionModel.system and ProjectModel.system are Union[str, None]
None == "None"
Overrides == {None, "", "persona"}

\* ChatModel (models.py): message, id (0: no id)
Msgs == {"A", "B", "C"}

\* HTTP status codes the handlers answer with
HTTP_OK == 200
HTTP_FORBIDDEN == 403
HTTP_NOT_FOUND == 404
HTTP_ERROR == 500

VARIABLES
    dbProjects,    \* metadata store: the set of project rows
    userProjects,  \* metadata store: the user-project associations
    runtimes,      \* brain: names with a cached project runtime
    index,         \* per project: the vector store (state and chunks)
    uploads,       \* per project: the upload directory
    nextId,        \* the next chunk id the store assigns (ids are never reused)
    chats,         \* the chat sessions, by chat id: the project and the recorded turns
    req,           \* per slot: the request in flight or its answer
    issued,        \* the number of requests issued so far
    lastIngest,    \* history: per project and source, the document count of the last
                   \* successful ingestion since its chunks were last removed (-1: none)
    pastIds,       \* history: per project and source, ids earlier ingestions produced
    gone           \* history: names deleted by delete_project and not created since

vars == <<dbProjects, userProjects, runtimes, index, uploads, nextId, chats, req, issued,
          lastIngest, pastIds, gone>>
store == <<dbProjects, userProjects, runtimes, index, uploads, nextId, chats, issued>>
history == <<lastIngest, pastIds, gone>>

\* ---------------------------------------------------------------- helpers
\* os.path.join(UPLOADS_PATH, project, filename): a path is its segments, and
\* the file name brings its own
UploadPath(n, f) == <<UPLOADS_PATH, n>> \o f

\* the directory entry the file system resolves a path to: ".." steps back to
\* the parent directory
RECURSIVE NormPath(_)
NormPath(path) ==
    IF path = <<>> THEN <<>>
    ELSE LET front == NormPath(SubSeq(path, 1, Len(path) - 1))
             last == path[Len(path)]
         IN IF last = ".." /\ front # <<>> THEN SubSeq(front, 1, Len(front) - 1)
            ELSE Append(front, last)

\* every value the `source` of a chunk takes
Sources == Urls \cup {UploadPath(n, f) : n \in Names, f \in FileNames}

\* str.startswith(('http://', 'https://'))
IsUrl(src) == Len(src) > 0 /\ Head(src) \in {"http:", "https:"}

\* base64: the client encodes, the handler decodes
B64Encode(s) == <<"b64">> \o s
B64Decode(e) == Tail(e)

\* os.path.splitext(filename)[1]
Ext(f) == IF f[Len(f)] = "a.txt" THEN ".txt" ELSE ".xyz"

\* modules.loaders.LOADERS: the extensions with a loader
LOADERS == {".txt"}

NoIndex == [st |-> "gone", chunks |-> {}]
NoUploads == [dir |-> FALSE, files |-> [f \in Files |-> ""]]

Idle == [op |-> "", pc |-> "idle", project |-> "", src |-> <<>>, id |-> 0,
         user |-> "", model |-> NoModel, content |-> "",
         ndocs |-> 0, ids |-> {}, status |-> 0, err |-> "", count |-> 0,
         conc |-> {}, called |-> {}, intact |-> FALSE, dup |-> FALSE,
         before |-> {}, system |-> "", msg |-> "", chat |-> 0, turns |-> <<>>,
         type |-> "", urls |-> <<>>, files |-> [f \in Files |-> ""]]

\* a resolved path names an entry of an upload directory that exists
IsEntry(path) ==
    /\ Len(path) = 3 /\ path[1] = UPLOADS_PATH
    /\ path[2] \in Names /\ path[3] \in Files
    /\ uploads[path[2]].dir

InFlight(r) == req[r].pc \notin {"idle", "done"}
Done(r) == req[r].pc = "done"

\* the answer of a request: status, error, and the count it reports
Answer(r, status, err, count) ==
    [req[r] EXCEPT !.pc = "done", !.status = status, !.err = err, !.count = count]

\* collection.get(where={'source': src})['ids']
SourceIds(n, src) == {c.id : c \in {d \in index[n].chunks : d.source = src}}

\* collection.get(ids=[id])['ids']
IdIds(n, id) == {c.id : c \in {d \in index[n].chunks : d.id = id}}

\* collection.delete(ids)
DeleteIds(n, ids) == [index EXCEPT ![n].chunks = {c \in @ : c.id \notin ids}]

\* the sources that lose a chunk when ids are deleted from n's index
SourcesOf(n, ids) == {c.source : c \in {d \in index[n].chunks : d.id \in ids}}

\* history: removing chunks of a source ends "ingested and not deleted since"
Forget(n, srcs) ==
    [lastIngest EXCEPT ![n] = [u \in Sources |-> IF u \in srcs THEN -1 ELSE @[u]]]

\* the source an ingestion request tags its chunks with: the URL, or the
\* destination path of the upload
Source(rq) ==
    IF rq.op = "ingest_url" THEN rq.src ELSE UploadPath(rq.project, rq.src)

\* history: an ingestion in flight whose stored chunks are being removed
Spoil(rq, n, srcs) ==
    [s \in Slots |->
        IF rq[s].project = n /\ rq[s].pc = "persist" /\ Source(rq[s]) \in srcs
        THEN [rq[s] EXCEPT !.intact = FALSE] ELSE rq[s]]

SpoilAll(rq, n) ==
    [s \in Slots |->
        IF rq[s].project = n /\ rq[s].pc = "persist"
        THEN [rq[s] EXCEPT !.intact = FALSE] ELSE rq[s]]

Init ==
    /\ dbProjects = {}
    /\ userProjects = {}
    /\ runtimes = {}
    /\ index = [n \in Names |-> NoIndex]
    /\ uploads = [n \in Names |-> NoUploads]
    /\ nextId = 1
    /\ chats = <<>>
    /\ req = [r \in Slots |-> Idle]
    /\ issued = 0
    /\ lastIngest = [n \in Names |-> [u \in Sources |-> -1]]
    /\ pastIds = [n \in Names |-> [u \in Sources |-> {}]]
    /\ gone = {}

\* ---------------------------------------------------------------- requests
\* A client issues a request into a free slot.  `in` bounds the inputs.
Arrive(r, rec) ==
    /\ ~InFlight(r)
    /\ issued < MaxOps
    /\ issued' = issued + 1
    /\ req' = [s \in Slots |->
                 IF s = r THEN [rec EXCEPT !.conc = {t \in Slots \ {r} : InFlight(t)}]
                 ELSE IF InFlight(s) THEN [req[s] EXCEPT !.conc = @ \cup {r}]
                 ELSE [req[s] EXCEPT !.conc = @ \ {r}]]
    /\ UNCHANGED <<dbProjects, userProjects, runtimes, index, uploads, nextId, chats, history>>

IssueCreate(r, in) ==
    \E n \in in.names, u \in in.users, l \in in.llms, s \in in.systems :
        Arrive(r, [Idle EXCEPT !.op = "create_project", !.pc = "run", !.project = n,
                               !.user = u, !.model = ProjectModel(n, l, s)])

IssueEdit(r, in) ==
    \E n \in in.names, l \in in.llms, s \in in.systems :
        Arrive(r, [Idle EXCEPT !.op = "edit_project", !.pc = "run", !.project = n,
                               !.model = ProjectModel(n, l, s)])

IssueByName(r, in, op, pc) ==
    \E n \in in.names :
        Arrive(r, [Idle EXCEPT !.op = op, !.pc = pc, !.project = n])

IssueIngestUrl(r, in) ==
    \E n \in in.names, u \in in.urls :
        /\ nextId <= MaxIds
        /\ Arrive(r, [Idle EXCEPT !.op = "ingest_url", !.pc = "check", !.project = n,
                                  !.src = u])

IssueIngestFile(r, in) ==
    \E n \in in.names, f \in in.files, c \in in.contents :
        /\ nextId <= MaxIds
        /\ Arrive(r, [Idle EXCEPT !.op = "ingest_file", !.pc = "write", !.project = n,
                                  !.src = f, !.content = c])

IssueDeleteUrl(r, in) ==
    \E n \in in.names, u \in in.urls :
        Arrive(r, [Idle EXCEPT !.op = "delete_url", !.pc = "query", !.project = n,
                               !.src = B64Encode(u)])

IssueDeleteFile(r, in) ==
    \E n \in in.names, f \in in.files :
        Arrive(r, [Idle EXCEPT !.op = "delete_file", !.pc = "query", !.project = n,
                               !.src = B64Encode(f)])

IssueDeleteEmbedding(r, in) ==
    \E n \in in.names, i \in 1..MaxIds :
        Arrive(r, [Idle EXCEPT !.op = "delete_embedding", !.pc = "query",
                               !.project = n, !.id = i])

IssueGetEmbedding(r, in) ==
    \E n \in in.names, s \in in.urls \cup in.files :
        Arrive(r, [Idle EXCEPT !.op = "get_embedding", !.pc = "run", !.project = n,
                               !.src = s])

IssueListUrls(r, in) == IssueByName(r, in, "list_urls", "run")

IssueQuestion(r, in) ==
    \E n \in in.names, s \in in.overrides :
        Arrive(r, [Idle EXCEPT !.op = "question_project", !.pc = "run", !.project = n,
                               !.system = s])

\* a chat message carries no id, or the id an earlier answer returned
IssueChat(r, in) ==
    \E n \in in.names, m \in in.msgs, c \in 0..Len(chats) :
        /\ c = 0 => Len(chats) + Cardinality({t \in Slots : req[t].op = "chat_project"
                                                 /\ req[t].pc = "load"
                                                 /\ req[t].chat = 0}) < MaxChats
        /\ c # 0 => chats[c].project = n
        /\ Arrive(r, [Idle EXCEPT !.op = "chat_project", !.pc = "load", !.project = n,
                                  !.msg = m, !.chat = c])

At(r, op, pc) == req[r].op = op /\ req[r].pc = pc

\* ---------------------------------------------------------------- brain
\* brain.findProject(name, db): the row of that name, if any
Found(n) == \E row \in dbProjects : row.name = n
Row(n) == CHOOSE row \in dbProjects : row.name = n

\* findProject builds and caches the runtime on the first lookup
Lookup(n) == IF Found(n) THEN runtimes \cup {n} ELSE runtimes

\* try: ... except Exception as e: raise HTTPException(status_code=code, ...)
\* HTTPException is an Exception: whatever the try block raises, an
\* HTTPException with its own status included, is answered with `code`.
TryExcept(raised, code) == code

\* brain.createProject(projectModel, db): persist the row, initialise the index
\* (the durable store of that name is opened, or created empty) and the uploads
createProjectIndex(n) == [index EXCEPT ![n].st = "ok"]

\* brain.deleteProject(name, db): the index and the upload directory are deleted
deleteProjectIndex(n) == [index EXCEPT ![n] = NoIndex]

\* brain.editProject(name, update, db): the row with the patched fields (a
\* partial update: a field that is None is left as it is)
editRow(row, patch) ==
    [row EXCEPT !.llm = IF patch.llm = None THEN @ ELSE patch.llm,
                !.system = IF patch.system = None THEN @ ELSE patch.system]

\* ---------------------------------------------------------------- projects
\* mutant: the existence check is missing
create_project_nocheck(r) ==
    /\ At(r, "create_project", "run")
    /\ LET n == req[r].project IN
       /\ dbProjects' = dbProjects \cup {req[r].model}
       /\ index' = createProjectIndex(n)
       /\ uploads' = [uploads EXCEPT ![n].dir = TRUE]
       /\ runtimes' = runtimes \cup {n}
       /\ userProjects' = userProjects \cup {<<req[r].user, n>>}
       /\ req' = [req EXCEPT ![r] =
                    [Answer(r, HTTP_OK, "", 0) EXCEPT
                        !.called = {"createProject", "add_userproject"}]]
       /\ gone' = gone \ {n}
       /\ UNCHANGED <<chats, issued, nextId, lastIngest, pastIds>>

\* mutant: the association is added before the existence check
create_project_assoc_first(r) ==
    /\ At(r, "create_project", "run")
    /\ LET n == req[r].project IN
       /\ userProjects' = userProjects \cup {<<req[r].user, n>>}
       /\ IF Found(n)
          THEN /\ req' = [req EXCEPT ![r] =
                            [Answer(r, TryExcept(HTTP_FORBIDDEN, HTTP_ERROR),
                                    "AlreadyExists", 0) EXCEPT
                                !.called = {"add_userproject"}]]
               /\ runtimes' = Lookup(n)
               /\ UNCHANGED <<chats, issued, dbProjects, index, uploads, nextId, history>>
          ELSE /\ dbProjects' = dbProjects \cup {req[r].model}
               /\ index' = createProjectIndex(n)
               /\ uploads' = [uploads EXCEPT ![n].dir = TRUE]
               /\ runtimes' = runtimes \cup {n}
               /\ req' = [req EXCEPT ![r] =
                            [Answer(r, HTTP_OK, "", 0) EXCEPT
                                !.called = {"createProject", "add_userproject"}]]
               /\ gone' = gone \ {n}
               /\ UNCHANGED <<chats, issued, nextId, lastIngest, pastIds>>

\* POST /projects
create_project(r) ==
    /\ At(r, "create_project", "run")
    /\ LET n == req[r].project IN
       IF Found(n)
       THEN /\ req' = [req EXCEPT ![r] = Answer(r, TryExcept(HTTP_FORBIDDEN, HTTP_ERROR),
                                                "AlreadyExists", 0)]
            /\ runtimes' = Lookup(n)
            /\ UNCHANGED <<chats, issued, dbProjects, userProjects, index, uploads, nextId, history>>
       ELSE /\ dbProjects' = dbProjects \cup {req[r].model}
            /\ index' = createProjectIndex(n)
            /\ uploads' = [uploads EXCEPT ![n].dir = TRUE]
            /\ runtimes' = runtimes \cup {n}
            /\ userProjects' = userProjects \cup {<<req[r].user, n>>}
            /\ req' = [req EXCEPT ![r] =
                         [Answer(r, HTTP_OK, "", 0) EXCEPT
                             !.called = {"createProject", "add_userproject"}]]
            /\ gone' = gone \ {n}
            /\ UNCHANGED <<chats, issued, nextId, lastIngest, pastIds>>

\* DELETE /projects/{projectName}
delete_project(r) ==
    /\ At(r, "delete_project", "run")
    /\ LET n == req[r].project IN
       IF Found(n)
       THEN /\ dbProjects' = dbProjects \ {Row(n)}
            /\ runtimes' = runtimes \ {n}
            /\ index' = deleteProjectIndex(n)
            /\ uploads' = [uploads EXCEPT ![n] = NoUploads]
            /\ req' = [SpoilAll(req, n) EXCEPT ![r] = Answer(r, HTTP_OK, "", 0)]
            /\ gone' = gone \cup {n}
            /\ lastIngest' = [lastIngest EXCEPT ![n] = [u \in Sources |-> -1]]
            /\ UNCHANGED <<chats, issued, userProjects, nextId, pastIds>>
       ELSE /\ req' = [req EXCEPT ![r] = Answer(r, TryExcept(HTTP_NOT_FOUND, HTTP_ERROR),
                                                "NotFound", 0)]
            /\ UNCHANGED <<store, history>>

\* PATCH /projects/{projectName}
edit_project(r) ==
    /\ At(r, "edit_project", "run")
    /\ LET n == req[r].project IN
       IF Found(n)
       THEN /\ dbProjects' = (dbProjects \ {Row(n)}) \cup {editRow(Row(n), req[r].model)}
            /\ runtimes' = runtimes \ {n}
            /\ req' = [req EXCEPT ![r] = Answer(r, HTTP_OK, "", 0)]
            /\ UNCHANGED <<chats, issued, userProjects, index, uploads, nextId, history>>
       ELSE /\ req' = [req EXCEPT ![r] = Answer(r, TryExcept(HTTP_NOT_FOUND, HTTP_ERROR),
                                                "NotFound", 0)]
            /\ UNCHANGED <<store, history>>

\* mutant: the exception is answered 500, as in the other handlers
get_project_500(r) ==
    /\ At(r, "get_project", "run")
    /\ LET n == req[r].project IN
       /\ req' = [req EXCEPT ![r] =
                    IF ~Found(n) THEN Answer(r, HTTP_ERROR, "NoneType", 0)
                    ELSE IF index[n].st # "ok" THEN Answer(r, HTTP_ERROR, "NoCollection", 0)
                    ELSE Answer(r, HTTP_OK, "", Cardinality(index[n].chunks))]
       /\ runtimes' = Lookup(n)
       /\ UNCHANGED <<chats, issued, dbProjects, userProjects, index, uploads, nextId, history>>

\* GET /projects/{projectName}: any exception (project is None, the collection
\* is missing) is answered 404
get_project(r) ==
    /\ At(r, "get_project", "run")
    /\ LET n == req[r].project IN
       /\ req' = [req EXCEPT ![r] =
                    IF ~Found(n) THEN Answer(r, HTTP_NOT_FOUND, "NoneType", 0)
                    ELSE IF index[n].st # "ok" THEN Answer(r, HTTP_NOT_FOUND, "NoCollection", 0)
                    ELSE Answer(r, HTTP_OK, "", Cardinality(index[n].chunks))]
       /\ runtimes' = Lookup(n)
       /\ UNCHANGED <<chats, issued, dbProjects, userProjects, index, uploads, nextId, history>>

\* ---------------------------------------------------------------- ingestion
\* mutant: the documents are indexed one by one while they load, so a load that
\* fails has already stored a chunk
LoadStepPartial(r) ==
    \/ \E e \in {"LoadFailed", "ExtractFailed"} :
          /\ nextId <= MaxIds
          /\ req' = [req EXCEPT ![r] = Answer(r, TryExcept(0, HTTP_ERROR), e, 0)]
          /\ index' = [index EXCEPT ![req[r].project].chunks =
                          @ \cup {[id |-> nextId, source |-> Source(req[r]), run |-> nextId]}]
          /\ nextId' = nextId + 1
          /\ UNCHANGED <<chats, issued, dbProjects, userProjects, runtimes, uploads, history>>
    \/ \E k \in 0..MaxDocs :
          /\ req' = [req EXCEPT ![r].ndocs = k, ![r].pc = "index"]
          /\ UNCHANGED <<store, history>>

\* documents = loader.load(); documents = ExtractKeywordsForMetadata(documents)
\* Both calls work on the request's own data: the loader fails, or the keyword
\* extraction fails, or k documents are ready to be indexed.
LoadStep(r) ==
    \/ \E e \in {"LoadFailed", "ExtractFailed"} :
          /\ req' = [req EXCEPT ![r] = Answer(r, TryExcept(0, HTTP_ERROR), e, 0)]
          /\ UNCHANGED <<store, history>>
    \/ \E k \in 0..MaxDocs :
          /\ req' = [req EXCEPT ![r].ndocs = k, ![r].pc = "index"]
          /\ UNCHANGED <<store, history>>

\* the chunks IndexDocuments stores for k documents: fresh ids, the request's source
NewIds(k) == nextId..(nextId + k - 1)
NewChunks(rq, k) == {[id |-> i, source |-> Source(rq), run |-> nextId] : i \in NewIds(k)}

\* ids = IndexDocuments(brain, project, documents): the batch is stored, or the
\* provider fails and nothing is stored.  The runtime the request holds may be
\* stale: its collection dropped by a reset, or its project deleted.
IndexStep(r) ==
    LET n == req[r].project
        k == req[r].ndocs
        u == Source(req[r])
    IN
    \/ /\ req' = [req EXCEPT ![r] =
                    Answer(r, TryExcept(0, HTTP_ERROR),
                           IF index[n].st = "dropped" THEN "NoCollection" ELSE "IndexFailed", 0)]
       /\ UNCHANGED <<store, history>>
    \/ /\ index[n].st # "dropped"
       /\ nextId + k - 1 <= MaxIds
       /\ index' = [index EXCEPT ![n].chunks = @ \cup NewChunks(req[r], k)]
       /\ nextId' = nextId + k
       /\ req' = [req EXCEPT ![r].pc = "persist", ![r].ids = NewIds(k),
                             ![r].intact = (k > 0), ![r].called = {"IndexDocuments"}]
       /\ pastIds' = [pastIds EXCEPT ![n][u] = @ \cup NewIds(k)]
       /\ UNCHANGED <<chats, issued, dbProjects, userProjects, runtimes, uploads, lastIngest, gone>>

\* project.db.persist(), then the answer with len(ids)
PersistStep(r) ==
    LET n == req[r].project
        u == Source(req[r])
        k == Cardinality(req[r].ids)
    IN
    /\ req' = [req EXCEPT ![r] =
                 [Answer(r, HTTP_OK, "", k) EXCEPT !.called = @ \cup {"persist"}]]
    /\ lastIngest' = [lastIngest EXCEPT ![n][u] = IF req[r].intact THEN k ELSE 0]
    /\ UNCHANGED <<store, pastIds, gone>>

\* mutant: the dedup check is missing, as it is in ingest_file
ingest_url_check_nodedup(r) ==
    /\ At(r, "ingest_url", "check")
    /\ LET n == req[r].project
           u == req[r].src
       IN
       /\ req' = [req EXCEPT ![r] =
                    IF ~Found(n) THEN Answer(r, TryExcept(0, HTTP_ERROR), "NoneType", 0)
                    ELSE [req[r] EXCEPT !.pc = "load", !.before = pastIds[n][u]]]
       /\ runtimes' = Lookup(n)
       /\ UNCHANGED <<chats, issued, dbProjects, userProjects, index, uploads, nextId, history>>

\* mutant: the dedup check rejects on len(docs['ids']) >= 0
ingest_url_check_always(r) ==
    /\ At(r, "ingest_url", "check")
    /\ LET n == req[r].project
           u == req[r].src
       IN
       /\ req' = [req EXCEPT ![r] =
                    IF ~Found(n) THEN Answer(r, TryExcept(0, HTTP_ERROR), "NoneType", 0)
                    ELSE IF index[n].st # "ok"
                         THEN Answer(r, TryExcept(0, HTTP_ERROR), "NoCollection", 0)
                    ELSE IF Cardinality(SourceIds(n, u)) >= 0
                         THEN Answer(r, TryExcept(0, HTTP_ERROR), "AlreadyIngested", 0)
                    ELSE [req[r] EXCEPT !.pc = "load", !.before = pastIds[n][u]]]
       /\ runtimes' = Lookup(n)
       /\ UNCHANGED <<chats, issued, dbProjects, userProjects, index, uploads, nextId, history>>

\* POST /projects/{projectName}/embeddings/ingest/url: the lookup and the
\* dedup check
ingest_url_check(r) ==
    /\ At(r, "ingest_url", "check")
    /\ LET n == req[r].project
           u == req[r].src
       IN
       /\ req' = [req EXCEPT ![r] =
                    IF ~Found(n) THEN Answer(r, TryExcept(0, HTTP_ERROR), "NoneType", 0)
                    ELSE IF index[n].st # "ok"
                         THEN Answer(r, TryExcept(0, HTTP_ERROR), "NoCollection", 0)
                    ELSE IF Cardinality(SourceIds(n, u)) > 0
                         THEN Answer(r, TryExcept(0, HTTP_ERROR), "AlreadyIngested", 0)
                    ELSE [req[r] EXCEPT !.pc = "load", !.before = pastIds[n][u]]]
       /\ runtimes' = Lookup(n)
       /\ UNCHANGED <<chats, issued, dbProjects, userProjects, index, uploads, nextId, history>>

ingest_url_load(r) == At(r, "ingest_url", "load") /\ LoadStep(r)

\* mutant: the answer is given right after the upsert, without persist
ingest_url_index_nopersist(r) ==
    /\ At(r, "ingest_url", "index")
    /\ LET n == req[r].project
           k == req[r].ndocs
       IN
       /\ index[n].st # "dropped"
       /\ nextId + k - 1 <= MaxIds
       /\ index' = [index EXCEPT ![n].chunks = @ \cup NewChunks(req[r], k)]
       /\ nextId' = nextId + k
       /\ req' = [req EXCEPT ![r] =
                    [Answer(r, HTTP_OK, "", k) EXCEPT !.ids = NewIds(k),
                                                      !.called = {"IndexDocuments"}]]
       /\ pastIds' = [pastIds EXCEPT ![n][req[r].src] = @ \cup NewIds(k)]
       /\ UNCHANGED <<chats, issued, dbProjects, userProjects, runtimes, uploads, lastIngest, gone>>

ingest_url_index(r) == At(r, "ingest_url", "index") /\ IndexStep(r)
ingest_url_persist(r) == At(r, "ingest_url", "persist") /\ PersistStep(r)

\* POST /projects/{projectName}/embeddings/ingest/upload: the lookup and the
\* copy of the upload to its destination
ingest_file_write(r) ==
    /\ At(r, "ingest_file", "write")
    /\ LET n == req[r].project
           f == req[r].src
           dest == NormPath(UploadPath(n, f))
       IN
       IF ~Found(n) \/ ~uploads[n].dir \/ ~IsEntry(dest)
       THEN /\ req' = [req EXCEPT ![r] =
                         Answer(r, TryExcept(0, HTTP_ERROR),
                                IF Found(n) THEN "NoDirectory" ELSE "NoneType", 0)]
            /\ runtimes' = Lookup(n)
            /\ UNCHANGED <<chats, issued, dbProjects, userProjects, index, uploads, nextId, history>>
       ELSE /\ uploads' = [uploads EXCEPT ![dest[2]].files[dest[3]] = req[r].content]
            /\ req' = [req EXCEPT ![r].pc = "load", ![r].files = uploads[n].files,
                                  ![r].before = pastIds[n][UploadPath(n, f)],
                                  ![r].dup = (lastIngest[n][UploadPath(n, f)] >= 1)]
            /\ runtimes' = Lookup(n)
            /\ UNCHANGED <<chats, issued, dbProjects, userProjects, index, nextId, history>>

\* loader = FindFileLoader(dest, ext, options), then as for a URL
ingest_file_load(r) ==
    /\ At(r, "ingest_file", "load")
    /\ IF Ext(req[r].src) \notin LOADERS
       THEN /\ req' = [req EXCEPT ![r] =
                         Answer(r, TryExcept(0, HTTP_ERROR), "UnsupportedSource", 0)]
            /\ UNCHANGED <<store, history>>
       ELSE LoadStep(r)

ingest_file_index(r) == At(r, "ingest_file", "index") /\ IndexStep(r)
ingest_file_persist(r) == At(r, "ingest_file", "persist") /\ PersistStep(r)

\* ---------------------------------------------------------------- index
\* A handler without try/except: FastAPI answers a raised HTTPException with
\* its status and any other exception with 500.
Unhandled(raised) == IF raised # 0 THEN raised ELSE HTTP_ERROR

\* the lookup of a project and its collection fails
NoCollection(n) == ~Found(n) \/ index[n].st # "ok"
LookupError(n) == IF Found(n) THEN "NoCollection" ELSE "NoneType"

\* POST /projects/{projectName}/embeddings/reset: project.db._client.reset()
project_reset_reset(r) ==
    /\ At(r, "project_reset", "reset")
    /\ LET n == req[r].project IN
       IF ~Found(n)
       THEN /\ req' = [req EXCEPT ![r] =
                         Answer(r, TryExcept(0, HTTP_NOT_FOUND), "NoneType", 0)]
            /\ UNCHANGED <<store, history>>
       ELSE /\ index' = [index EXCEPT ![n] = [st |-> "dropped", chunks |-> {}]]
            /\ req' = [SpoilAll(req, n) EXCEPT ![r].pc = "init"]
            /\ runtimes' = Lookup(n)
            /\ lastIngest' = [lastIngest EXCEPT ![n] = [u \in Sources |-> -1]]
            /\ UNCHANGED <<chats, issued, dbProjects, userProjects, uploads, nextId, pastIds, gone>>

\* brain.initializeEmbeddings(project): the collection is created again
project_reset_init(r) ==
    /\ At(r, "project_reset", "init")
    /\ LET n == req[r].project IN
       /\ index' = [index EXCEPT ![n].st = "ok"]
       /\ req' = [req EXCEPT ![r] = Answer(r, HTTP_OK, "", 0)]
       /\ UNCHANGED <<chats, issued, dbProjects, userProjects, runtimes, uploads, nextId, history>>

\* the first half of a delete handler: the lookup and the query for the ids
QueryStep(r, ids, next) ==
    LET n == req[r].project IN
    /\ req' = [req EXCEPT ![r] =
                 IF NoCollection(n) THEN Answer(r, Unhandled(0), LookupError(n), 0)
                 ELSE IF ids = {} /\ next = "done" THEN Answer(r, HTTP_OK, "", 0)
                 ELSE [req[r] EXCEPT !.ids = ids,
                                     !.pc = IF ids = {} THEN next ELSE "delete"]]
    /\ runtimes' = Lookup(n)
    /\ UNCHANGED <<chats, issued, dbProjects, userProjects, index, uploads, nextId, history>>

\* if len(ids): collection.delete(ids), on the collection the query step got
DeleteStep(r, next) ==
    LET n == req[r].project
        ids == req[r].ids
        rq == Spoil(req, n, SourcesOf(n, ids))
    IN
    IF index[n].st # "ok"
    THEN /\ req' = [req EXCEPT ![r] = Answer(r, Unhandled(0), "NoCollection", 0)]
         /\ UNCHANGED <<store, history>>
    ELSE /\ index' = DeleteIds(n, ids)
         /\ lastIngest' = Forget(n, SourcesOf(n, ids))
         /\ req' = [rq EXCEPT ![r] =
                      IF next = "done" THEN Answer(r, HTTP_OK, "", Cardinality(ids))
                      ELSE [req[r] EXCEPT !.pc = next]]
         /\ UNCHANGED <<chats, issued, dbProjects, userProjects, runtimes, uploads, nextId, pastIds, gone>>

\* DELETE /projects/{projectName}/embeddings/url/{url}
delete_url_query(r) ==
    /\ At(r, "delete_url", "query")
    /\ QueryStep(r, SourceIds(req[r].project, B64Decode(req[r].src)), "done")

delete_url_delete(r) == At(r, "delete_url", "delete") /\ DeleteStep(r, "done")

\* mutant: an id the query does not find is answered as missing
delete_embedding_query_strict(r) ==
    /\ At(r, "delete_embedding", "query")
    /\ LET n == req[r].project
           ids == IdIds(n, req[r].id)
       IN
       /\ req' = [req EXCEPT ![r] =
                    IF NoCollection(n) THEN Answer(r, Unhandled(0), LookupError(n), 0)
                    ELSE IF ids = {} THEN Answer(r, Unhandled(HTTP_NOT_FOUND), "NotFound", 0)
                    ELSE [req[r] EXCEPT !.ids = ids, !.pc = "delete"]]
       /\ runtimes' = Lookup(n)
       /\ UNCHANGED <<chats, issued, dbProjects, userProjects, index, uploads, nextId, history>>

\* DELETE /projects/{projectName}/embeddings/{id}
delete_embedding_query(r) ==
    /\ At(r, "delete_embedding", "query")
    /\ QueryStep(r, IdIds(req[r].project, req[r].id), "done")

delete_embedding_delete(r) == At(r, "delete_embedding", "delete") /\ DeleteStep(r, "done")

\* DELETE /projects/{projectName}/embeddings/files/{fileName}
delete_file_query(r) ==
    /\ At(r, "delete_file", "query")
    /\ QueryStep(r, SourceIds(req[r].project,
                              UploadPath(req[r].project, B64Decode(req[r].src))),
                 "remove")

delete_file_delete(r) == At(r, "delete_file", "delete") /\ DeleteStep(r, "remove")

\* os.path.exists(file_path), os.path.isfile(file_path), os.remove(file_path)
delete_file_remove(r) ==
    /\ At(r, "delete_file", "remove")
    /\ LET n == req[r].project
           f == B64Decode(req[r].src)
           file_path == NormPath(UploadPath(n, f))
       IN
       IF ~uploads[n].dir \/ ~IsEntry(file_path)
          \/ uploads[file_path[2]].files[file_path[3]] = ""
       THEN /\ req' = [req EXCEPT ![r] =
                         Answer(r, Unhandled(HTTP_NOT_FOUND), "FileNotFound", 0)]
            /\ UNCHANGED <<store, history>>
       ELSE /\ uploads' = [uploads EXCEPT ![file_path[2]].files[file_path[3]] = ""]
            /\ req' = [req EXCEPT ![r] = Answer(r, HTTP_OK, "", Cardinality(req[r].ids))]
            /\ UNCHANGED <<chats, issued, dbProjects, userProjects, runtimes, index, nextId, history>>

\* POST /projects/{projectName}/embeddings/find
get_embedding(r) ==
    /\ At(r, "get_embedding", "run")
    /\ LET n == req[r].project
           src == req[r].src
           ids == IF IsUrl(src) THEN SourceIds(n, src)
                  ELSE SourceIds(n, UploadPath(n, src))
       IN
       /\ req' = [req EXCEPT ![r] =
                    IF NoCollection(n) THEN Answer(r, Unhandled(0), LookupError(n), 0)
                    ELSE [Answer(r, HTTP_OK, "", Cardinality(ids)) EXCEPT !.ids = ids]]
       /\ runtimes' = Lookup(n)
       /\ UNCHANGED <<chats, issued, dbProjects, userProjects, index, uploads, nextId, history>>

\* ---------------------------------------------------------------- reading
Range(q) == {q[i] : i \in 1..Len(q)}

\* collection.get(include=["metadatas"]): the sources of the chunks, in the
\* order of their ids up to i
RECURSIVE Metadatas(_, _)
Metadatas(n, i) ==
    IF i = 0 THEN <<>>
    ELSE LET c == {d \in index[n].chunks : d.id = i} IN
         IF c = {} THEN Metadatas(n, i - 1)
         ELSE Append(Metadatas(n, i - 1), (CHOOSE d \in c : TRUE).source)

\* the loop of list_urls: a source is appended when it is a URL and not listed yet
RECURSIVE DistinctUrls(_)
DistinctUrls(metas) ==
    IF metas = <<>> THEN <<>>
    ELSE LET urls == DistinctUrls(SubSeq(metas, 1, Len(metas) - 1))
             source == metas[Len(metas)]
         IN IF IsUrl(source) /\ source \notin Range(urls) THEN Append(urls, source)
            ELSE urls

\* mutant: a source is appended whether or not it is listed already
list_urls_repeat(r) ==
    /\ At(r, "list_urls", "run")
    /\ LET n == req[r].project
           urls == SelectSeq(Metadatas(n, nextId - 1), IsUrl)
       IN
       /\ req' = [req EXCEPT ![r] =
                    IF NoCollection(n) THEN Answer(r, Unhandled(0), LookupError(n), 0)
                    ELSE [Answer(r, HTTP_OK, "", Len(urls)) EXCEPT !.urls = urls]]
       /\ runtimes' = Lookup(n)
       /\ UNCHANGED <<chats, issued, dbProjects, userProjects, index, uploads, nextId, history>>

\* GET /projects/{projectName}/embeddings/urls
list_urls(r) ==
    /\ At(r, "list_urls", "run")
    /\ LET n == req[r].project
           urls == DistinctUrls(Metadatas(n, nextId - 1))
       IN
       /\ req' = [req EXCEPT ![r] =
                    IF NoCollection(n) THEN Answer(r, Unhandled(0), LookupError(n), 0)
                    ELSE [Answer(r, HTTP_OK, "", Len(urls)) EXCEPT !.urls = urls]]
       /\ runtimes' = Lookup(n)
       /\ UNCHANGED <<chats, issued, dbProjects, userProjects, index, uploads, nextId, history>>

\* ---------------------------------------------------------------- answering
\* the truth value Python gives an optional string
Truthy(s) == s \notin {None, ""}

\* mutant: only the call's override selects the mode
question_project_override_only(r) ==
    /\ At(r, "question_project", "run")
    /\ LET n == req[r].project IN
       /\ \/ req' = [req EXCEPT ![r] =
                       Answer(r, TryExcept(0, HTTP_ERROR),
                              IF NoCollection(n) THEN LookupError(n)
                              ELSE "GenerationFailed", 0)]
          \/ /\ ~NoCollection(n)
             /\ req' = [req EXCEPT ![r] =
                          [Answer(r, HTTP_OK, "", 0) EXCEPT
                              !.type = IF Truthy(req[r].system)
                                       THEN "questioncontext" ELSE "question"]]
       /\ runtimes' = Lookup(n)
       /\ UNCHANGED <<chats, issued, dbProjects, userProjects, index, uploads, nextId, history>>

\* POST /projects/{projectName}/question: brain.questionContext or
\* brain.question retrieves from the index and generates; either fails, or the
\* answer carries the mode
question_project(r) ==
    /\ At(r, "question_project", "run")
    /\ LET n == req[r].project IN
       /\ \/ req' = [req EXCEPT ![r] =
                       Answer(r, TryExcept(0, HTTP_ERROR),
                              IF NoCollection(n) THEN LookupError(n)
                              ELSE "GenerationFailed", 0)]
          \/ /\ ~NoCollection(n)
             /\ req' = [req EXCEPT ![r] =
                          [Answer(r, HTTP_OK, "", 0) EXCEPT
                              !.type = IF Truthy(req[r].system) \/ Truthy(Row(n).system)
                                       THEN "questioncontext" ELSE "question"]]
       /\ runtimes' = Lookup(n)
       /\ UNCHANGED <<chats, issued, dbProjects, userProjects, index, uploads, nextId, history>>

\* brain.chat, first half: the session of the id is loaded, or a new one minted
loadChat(n, c) == IF c = 0 THEN Append(chats, [project |-> n, turns |-> <<>>]) ELSE chats

\* brain.chat, second half: the new turn is appended to the session
appendTurn(c, m) == [chats EXCEPT ![c].turns = Append(@, m)]

\* POST /projects/{projectName}/chat: the lookup and the prior turns
chat_project_load(r) ==
    /\ At(r, "chat_project", "load")
    /\ LET n == req[r].project
           c == IF req[r].chat = 0 THEN Len(chats) + 1 ELSE req[r].chat
       IN
       IF ~Found(n)
       THEN /\ req' = [req EXCEPT ![r] =
                         Answer(r, TryExcept(0, HTTP_ERROR), "NoneType", 0)]
            /\ UNCHANGED <<store, history>>
       ELSE /\ chats' = loadChat(n, req[r].chat)
            /\ req' = [req EXCEPT ![r].pc = "answer", ![r].chat = c,
                                  ![r].turns = chats'[c].turns]
            /\ runtimes' = Lookup(n)
            /\ UNCHANGED <<issued, dbProjects, userProjects, index, uploads, nextId, history>>

\* mutant: the turns loaded at the start are written back with the new turn
chat_project_answer_writeback(r) ==
    /\ At(r, "chat_project", "answer")
    /\ LET n == req[r].project IN
       \/ /\ req' = [req EXCEPT ![r] =
                       Answer(r, TryExcept(0, HTTP_ERROR),
                              IF NoCollection(n) THEN LookupError(n)
                              ELSE "GenerationFailed", 0)]
          /\ UNCHANGED <<store, history>>
       \/ /\ ~NoCollection(n)
          /\ chats' = [chats EXCEPT ![req[r].chat].turns = Append(req[r].turns, req[r].msg)]
          /\ req' = [req EXCEPT ![r] =
                       [Answer(r, HTTP_OK, "", 0) EXCEPT !.type = "chat"]]
          /\ UNCHANGED <<issued, dbProjects, userProjects, runtimes, index, uploads, nextId,
                         history>>

\* retrieval and generation, which may fail, then the new turn and the answer
chat_project_answer(r) ==
    /\ At(r, "chat_project", "answer")
    /\ LET n == req[r].project IN
       \/ /\ req' = [req EXCEPT ![r] =
                       Answer(r, TryExcept(0, HTTP_ERROR),
                              IF NoCollection(n) THEN LookupError(n)
                              ELSE "GenerationFailed", 0)]
          /\ UNCHANGED <<store, history>>
       \/ /\ ~NoCollection(n)
          /\ chats' = appendTurn(req[r].chat, req[r].msg)
          /\ req' = [req EXCEPT ![r] =
                       [Answer(r, HTTP_OK, "", 0) EXCEPT !.type = "chat"]]
          /\ UNCHANGED <<issued, dbProjects, userProjects, runtimes, index, uploads, nextId,
                         history>>

\* ---------------------------------------------------------------- specifications
ProjectSteps(r) ==
    \/ create_project(r)
    \/ delete_project(r)
    \/ edit_project(r)
    \/ get_project(r)

IngestUrlSteps(r) ==
    \/ ingest_url_check(r)
    \/ ingest_url_load(r)
    \/ ingest_url_index(r)
    \/ ingest_url_persist(r)

DeleteUrlSteps(r) ==
    \/ delete_url_query(r)
    \/ delete_url_delete(r)

IngestFileSteps(r) ==
    \/ ingest_file_write(r)
    \/ ingest_file_load(r)
    \/ ingest_file_index(r)
    \/ ingest_file_persist(r)

DeleteFileSteps(r) ==
    \/ delete_file_query(r)
    \/ delete_file_delete(r)
    \/ delete_file_remove(r)

ResetSteps(r) ==
    \/ project_reset_reset(r)
    \/ project_reset_init(r)

DeleteEmbeddingSteps(r) ==
    \/ delete_embedding_query(r)
    \/ delete_embedding_delete(r)

\* every endpoint on one project
InOne == [names |-> {"p1"}, users |-> {"alice"}, llms |-> {"l1"}, systems |-> {""},
          urls |-> {<<"http:", "a">>}, files |-> {<<"a.txt">>}, contents |-> {"c1"}, overrides |-> {None}, msgs |-> {"A"}]

Next ==
    \E r \in Two :
        \/ IssueCreate(r, InOne)
        \/ IssueEdit(r, InOne)
        \/ IssueByName(r, InOne, "delete_project", "run")
        \/ IssueByName(r, InOne, "get_project", "run")
        \/ IssueIngestUrl(r, InOne)
        \/ IssueDeleteUrl(r, InOne)
        \/ IssueIngestFile(r, InOne)
        \/ IssueDeleteFile(r, InOne)
        \/ IssueByName(r, InOne, "project_reset", "reset")
        \/ IssueDeleteEmbedding(r, InOne)
        \/ IssueGetEmbedding(r, InOne)
        \/ ProjectSteps(r)
        \/ IngestUrlSteps(r)
        \/ DeleteUrlSteps(r)
        \/ IngestFileSteps(r)
        \/ DeleteFileSteps(r)
        \/ ResetSteps(r)
        \/ DeleteEmbeddingSteps(r)
        \/ get_embedding(r)

Spec == Init /\ [][Next]_vars

\* the project endpoints on two names and two users
InProjects == [names |-> Names, users |-> Users, llms |-> {"l1"}, systems |-> Systems,
               urls |-> {<<"http:", "a">>}, files |-> {}, contents |-> {}, overrides |-> {}, msgs |-> {}]

NextProjects ==
    \E r \in Two :
        \/ IssueCreate(r, InProjects)
        \/ IssueEdit(r, InProjects)
        \/ IssueByName(r, InProjects, "delete_project", "run")
        \/ IssueByName(r, InProjects, "get_project", "run")
        \/ ProjectSteps(r)

SpecProjects == Init /\ [][NextProjects]_vars

\* URL ingestion and deletion in one project
InUrl == [names |-> {"p1"}, users |-> {"alice"}, llms |-> {"l1"}, systems |-> {""},
          urls |-> Urls, files |-> {}, contents |-> {}, overrides |-> {}, msgs |-> {}]

NextUrl ==
    \E r \in Two :
        \/ IssueCreate(r, InUrl)
        \/ IssueIngestUrl(r, InUrl)
        \/ IssueDeleteUrl(r, InUrl)
        \/ create_project(r)
        \/ IngestUrlSteps(r)
        \/ DeleteUrlSteps(r)

SpecUrl == Init /\ [][NextUrl]_vars

\* file ingestion and deletion in one project
InFile == [names |-> {"p1"}, users |-> {"alice"}, llms |-> {"l1"}, systems |-> {""},
           urls |-> {}, files |-> PlainNames, contents |-> Contents, overrides |-> {}, msgs |-> {}]

NextFile ==
    \E r \in Two :
        \/ IssueCreate(r, InFile)
        \/ IssueIngestFile(r, InFile)
        \/ IssueDeleteFile(r, InFile)
        \/ create_project(r)
        \/ IngestFileSteps(r)
        \/ DeleteFileSteps(r)

SpecFile == Init /\ [][NextFile]_vars

\* the life of one project: created, filled, read, deleted, created again
InLife == [names |-> {"p1"}, users |-> {"alice"}, llms |-> {"l1"}, systems |-> {""},
           urls |-> {<<"http:", "a">>}, files |-> {}, contents |-> {}, overrides |-> {}, msgs |-> {}]

NextLife ==
    \E r \in Two :
        \/ IssueCreate(r, InLife)
        \/ IssueByName(r, InLife, "delete_project", "run")
        \/ IssueByName(r, InLife, "get_project", "run")
        \/ IssueIngestUrl(r, InLife)
        \/ IssueGetEmbedding(r, InLife)
        \/ create_project(r)
        \/ delete_project(r)
        \/ get_project(r)
        \/ IngestUrlSteps(r)
        \/ get_embedding(r)

SpecLife == Init /\ [][NextLife]_vars

\* three clients creating and deleting one project
InCreate == [names |-> {"p1"}, users |-> Users, llms |-> {"l1"}, systems |-> Systems,
             urls |-> {}, files |-> {}, contents |-> {}, overrides |-> {}, msgs |-> {}]

NextCreate ==
    \E r \in Slots :
        \/ IssueCreate(r, InCreate)
        \/ IssueByName(r, InCreate, "delete_project", "run")
        \/ create_project(r)
        \/ delete_project(r)

SpecCreate == Init /\ [][NextCreate]_vars

\* the index of one project written, reset and read
InRead == [names |-> {"p1"}, users |-> {"alice"}, llms |-> {"l1"}, systems |-> {""},
           urls |-> Urls, files |-> {}, contents |-> {}, overrides |-> {}, msgs |-> {}]

NextRead ==
    \E r \in Two :
        \/ IssueCreate(r, InRead)
        \/ IssueIngestUrl(r, InRead)
        \/ IssueDeleteUrl(r, InRead)
        \/ IssueByName(r, InRead, "project_reset", "reset")
        \/ IssueGetEmbedding(r, InRead)
        \/ IssueListUrls(r, InRead)
        \/ create_project(r)
        \/ IngestUrlSteps(r)
        \/ DeleteUrlSteps(r)
        \/ ResetSteps(r)
        \/ get_embedding(r)
        \/ list_urls(r)

SpecRead == Init /\ [][NextRead]_vars

\* two projects and the operations on their indexes and upload directories
InCross == [names |-> Names, users |-> {"alice"}, llms |-> {"l1"}, systems |-> {""},
            urls |-> {}, files |-> {<<"a.txt">>, <<"..", "p2", "a.txt">>},
            contents |-> {"c1"}, overrides |-> {}, msgs |-> {}]

NextCross ==
    \E r \in Two :
        \/ IssueCreate(r, InCross)
        \/ IssueIngestFile(r, InCross)
        \/ IssueDeleteFile(r, InCross)
        \/ IssueByName(r, InCross, "project_reset", "reset")
        \/ IssueByName(r, InCross, "delete_project", "run")
        \/ create_project(r)
        \/ delete_project(r)
        \/ IngestFileSteps(r)
        \/ DeleteFileSteps(r)
        \/ ResetSteps(r)

SpecCross == Init /\ [][NextCross]_vars

\* questions to one project, with and without a persona
InAsk == [names |-> {"p1"}, users |-> {"alice"}, llms |-> {"l1"}, systems |-> Overrides,
          urls |-> {}, files |-> {}, contents |-> {}, overrides |-> Overrides, msgs |-> {}]

NextAsk ==
    \E r \in Two :
        \/ IssueCreate(r, InAsk)
        \/ IssueEdit(r, InAsk)
        \/ IssueQuestion(r, InAsk)
        \/ create_project(r)
        \/ edit_project(r)
        \/ question_project(r)

SpecAsk == Init /\ [][NextAsk]_vars

\* the messages of chat sessions in one project
InChat == [names |-> {"p1"}, users |-> {"alice"}, llms |-> {"l1"}, systems |-> {""},
           urls |-> {}, files |-> {}, contents |-> {}, overrides |-> {}, msgs |-> Msgs]

NextChat ==
    \E r \in Two :
        \/ IssueCreate(r, InChat)
        \/ IssueChat(r, InChat)
        \/ create_project(r)
        \/ chat_project_load(r)
        \/ chat_project_answer(r)

SpecChat == Init /\ [][NextChat]_vars

\* ---------------------------------------------------------------- claims
\* request r takes the step it is at
Steps(r, op, pc) == At(r, op, pc) /\ req'[r].pc # pc

Rejected(rq, err) == rq.pc = "done" /\ rq.status # HTTP_OK /\ rq.err = err

\* C1 as stated: once ingest_url(p, u) has succeeded, a second ingest_url(p, u)
\* with no removal of u's chunks in between is rejected as already ingested and
\* leaves the index as it was.
C1_Original ==
    [][\A r \in Slots :
         (/\ Steps(r, "ingest_url", "check")
          /\ Found(req[r].project)
          /\ lastIngest[req[r].project][req[r].src] >= 0)
         => (Rejected(req'[r], "AlreadyIngested") /\ index' = index)]_vars

\* C1 amended: once ingest_url(p, u) has succeeded with at least one chunk
\* stored, and no chunk of u has been removed since that ingestion stored them,
\* a second ingest_url(p, u) is rejected as already ingested and the chunks of
\* p's index, those of source u among them, are the same after it as before.
C1_Dedup ==
    [][\A r \in Slots :
         (/\ Steps(r, "ingest_url", "check")
          /\ Found(req[r].project)
          /\ lastIngest[req[r].project][req[r].src] >= 1)
         => (/\ Rejected(req'[r], "AlreadyIngested")
             /\ index' = index
             /\ Cardinality(SourceIds(req[r].project, req[r].src)) >= 1)]_vars

\* C1 witness: a second ingest_url of an ingested URL has been rejected
C1_Witness ==
    \E r \in Slots :
        /\ req[r].op = "ingest_url"
        /\ Rejected(req[r], "AlreadyIngested")
        /\ lastIngest[req[r].project][req[r].src] >= 1

\* C2: once ingest_file(p, f) has succeeded (with chunks stored and none of
\* them removed since), a second ingest_file(p, f) does not succeed.
C2_FileDedup ==
    \A r \in Slots :
        (req[r].op = "ingest_file" /\ Done(r) /\ req[r].dup) => req[r].status # HTTP_OK

\* an index-mutating operation in flight: an ingestion after its first step and
\* before its persist has returned, a reset between its two calls, a deletion
\* between its query and its delete
InMutation(r) ==
    \/ req[r].op \in {"ingest_url", "ingest_file"} /\ req[r].pc \in {"load", "index", "persist"}
    \/ req[r].op = "project_reset" /\ req[r].pc = "init"
    \/ req[r].op \in {"delete_url", "delete_file", "delete_embedding"} /\ req[r].pc = "delete"

\* C3: at most one mutating index operation per project is in flight
C3_MutualExclusion ==
    \A r1, r2 \in Slots :
        (r1 # r2 /\ InMutation(r1) /\ InMutation(r2)) => req[r1].project # req[r2].project

\* C4: all chunks of a project that share one source were written by a single
\* ingestion run
C4_SingleRun ==
    \A n \in Names : \A c1, c2 \in index[n].chunks :
        (IsUrl(c1.source) /\ c1.source = c2.source) => c1.run = c2.run

PreIndexErrors == {"UnsupportedSource", "LoadFailed", "ExtractFailed"}

\* C5: every step an ingestion takes before it indexes leaves every index as it
\* was, and an ingestion that fails at loader resolution, loading or keyword
\* extraction fails in such a step, having stored no chunk.
C5_FailedIngestFrame ==
    [][\A r \in Slots :
         req[r].op \in {"ingest_url", "ingest_file"} =>
            /\ (req[r].pc \in {"check", "write", "load"} /\ req'[r].pc # req[r].pc)
                  => index' = index
            /\ (InFlight(r) /\ req'[r].pc = "done" /\ req'[r].err \in PreIndexErrors)
                  => (req[r].pc = "load" /\ req'[r].status # HTTP_OK
                      /\ req'[r].ids = {} /\ index' = index)]_vars

\* C5 witness: an ingestion has failed before indexing, in a project whose index
\* holds chunks
C5_Witness ==
    \E r \in Slots :
        /\ req[r].op \in {"ingest_url", "ingest_file"}
        /\ Done(r) /\ req[r].err \in PreIndexErrors
        /\ index[req[r].project].chunks # {}

C7_DuplicateCreate ==
    [][\A r \in Slots :
         (Steps(r, "create_project", "run") /\ Found(req[r].project))
         => (/\ Rejected(req'[r], "AlreadyExists")
             /\ req'[r].called = {}
             /\ dbProjects' = dbProjects /\ userProjects' = userProjects
             /\ index' = index /\ uploads' = uploads)]_vars

\* C7 witness: a create_project of an existing name has been rejected
C7_Witness ==
    \E r \in Slots :
        /\ req[r].op = "create_project" /\ Rejected(req[r], "AlreadyExists")
        /\ Found(req[r].project)

\* two create_project requests for one name that were in flight together
Rivals(r1, r2, rq) ==
    /\ r1 # r2
    /\ rq[r1].op = "create_project" /\ rq[r2].op = "create_project"
    /\ rq[r1].project = rq[r2].project
    /\ r2 \in rq[r1].conc

\* what C8 says of two rivals once the second has finished
AtMostOneCreated(r1, r2) ==
    /\ ~(req'[r1].status = HTTP_OK /\ req'[r2].status = HTTP_OK)
    /\ ~("add_userproject" \in req'[r1].called /\ "add_userproject" \in req'[r2].called)
    /\ Cardinality({row \in dbProjects' : row.name = req[r2].project}) = 1

\* C8 as stated: when the second of two concurrent create_project requests for
\* one name finishes, at most one of them has succeeded, at most one has added
\* an association, and exactly one project of that name exists.
C8_Original ==
    [][\A r1, r2 \in Slots :
         (Rivals(r1, r2, req) /\ Done(r1) /\ Steps(r2, "create_project", "run"))
         => AtMostOneCreated(r1, r2)]_vars

\* C8 amended: the same, unless a delete_project of that name has succeeded
\* since the name was last created.
C8_ConcurrentCreate ==
    [][\A r1, r2 \in Slots :
         (/\ Rivals(r1, r2, req) /\ Done(r1) /\ Steps(r2, "create_project", "run")
          /\ req[r2].project \notin gone)
         => AtMostOneCreated(r1, r2)]_vars

\* C8 witness: of two concurrent create_project requests one has succeeded and
\* the other has been rejected
C8_Witness ==
    \E r1, r2 \in Slots :
        /\ Rivals(r1, r2, req) /\ Done(r1) /\ Done(r2)
        /\ req[r1].status = HTTP_OK
        /\ Rejected(req[r2], "AlreadyExists")

\* C9: while a name is deleted and not created again, no row of that name
\* exists, get_project answers 404 and reports no document, and get_embedding
\* fails and returns no chunk id.
C9_DeletedIsGone ==
    [][/\ \A n \in gone' : ~(\E row \in dbProjects' : row.name = n)
       /\ \A r \in Slots :
            req[r].project \in gone =>
               /\ Steps(r, "get_project", "run")
                     => (req'[r].status = HTTP_NOT_FOUND /\ req'[r].count = 0)
               /\ Steps(r, "get_embedding", "run")
                     => (req'[r].status # HTTP_OK /\ req'[r].ids = {})]_vars

\* C9 witness: get_project of a deleted project, whose index held chunks, has
\* answered 404
C9_Witness ==
    \E r \in Slots :
        /\ req[r].op = "get_project" /\ Done(r) /\ req[r].status = HTTP_NOT_FOUND
        /\ req[r].project \in gone
        /\ \E u \in Urls : pastIds[req[r].project][u] # {}

\* C10: delete_project and edit_project of a name that does not exist answer 404
C10_MissingIs404 ==
    \A r \in Slots :
        (req[r].op \in {"delete_project", "edit_project"} /\ Done(r)
         /\ req[r].err = "NotFound")
        => req[r].status = HTTP_NOT_FOUND

\* the errors of a request that hit conflicting state, and of a processing failure
ConflictErrors == {"AlreadyExists", "AlreadyIngested"}
ProcessingErrors == {"LoadFailed", "ExtractFailed", "IndexFailed"}

\* C11: the status that answers a conflict (create_project of an existing name,
\* ingest_url of a URL that has chunks) differs from every status that answers
\* a loader, extraction or indexing failure.
C11_ConflictSignal ==
    \A r1, r2 \in Slots :
        (/\ Done(r1) /\ req[r1].err \in ConflictErrors
         /\ Done(r2) /\ req[r2].err \in ProcessingErrors)
        => req[r1].status # req[r2].status

Reads == {"get_embedding", "list_urls", "question_project", "chat_project"}

\* C13: no read of an existing project's index finds the index collection
\* missing.
C13_NoTornRead ==
    \A r \in Slots :
        (req[r].op \in Reads /\ Done(r)) => req[r].err # "NoCollection"

\* C14: the steps of project_reset leave the project rows (name and
\* configuration) as they were; when project_reset(p) succeeds, p's index exists
\* and holds no chunk, so no source has a chunk and no URL is listed; and an
\* ingest_url of a source ingested before, made while the index is still as the
\* reset left it, passes the dedup check.
C14_ResetEmpties ==
    [][\A r \in Slots :
         LET n == req[r].project IN
         /\ (req[r].op = "project_reset" /\ req'[r].pc # req[r].pc /\ InFlight(r))
               => dbProjects' = dbProjects
         /\ (Steps(r, "project_reset", "init") /\ req'[r].status = HTTP_OK)
               => /\ index'[n].st = "ok"
                  /\ \A u \in Sources : {d \in index'[n].chunks : d.source = u} = {}
                  /\ {d.source : d \in {c \in index'[n].chunks : IsUrl(c.source)}} = {}
         /\ (/\ Steps(r, "ingest_url", "check") /\ Found(n)
             /\ pastIds[n][req[r].src] # {}
             /\ index[n] = [st |-> "ok", chunks |-> {}])
               => req'[r].pc = "load"]_vars

\* the operations of C15 on a project that exists
Mutators == {"ingest_url", "ingest_file", "delete_url", "delete_file", "delete_embedding",
             "project_reset", "edit_project", "delete_project"}

\* C15: a step of an ingestion, a chunk or file deletion, a reset, an edit or a
\* delete of project p leaves the index, the upload directory and the row of
\* every other project q unchanged.
C15_ProjectFrame ==
    [][\A r \in Slots :
         (req[r].op \in Mutators /\ InFlight(r) /\ req'[r].pc # req[r].pc)
         => \A q \in Names \ {req[r].project} :
               /\ index'[q] = index[q]
               /\ uploads'[q] = uploads[q]
               /\ {row \in dbProjects' : row.name = q} = {row \in dbProjects : row.name = q}]_vars

\* C16: delete_embedding of an id that is not in the index, and delete_url of a
\* source that has no chunk, succeed, report 0 deleted and leave the index as it
\* was; a delete that runs removes exactly the chunks of the ids it found, so
\* repeating it changes nothing more.
C16_DeleteAbsent ==
    [][\A r \in Slots :
         LET n == req[r].project IN
         /\ (/\ Steps(r, "delete_embedding", "query") /\ ~NoCollection(n)
             /\ IdIds(n, req[r].id) = {})
               => (/\ req'[r].pc = "done" /\ req'[r].status = HTTP_OK
                   /\ req'[r].count = 0 /\ index' = index)
         /\ (/\ Steps(r, "delete_url", "query") /\ ~NoCollection(n)
             /\ SourceIds(n, B64Decode(req[r].src)) = {})
               => (/\ req'[r].pc = "done" /\ req'[r].status = HTTP_OK
                   /\ req'[r].count = 0 /\ index' = index)
         /\ (/\ req[r].op \in {"delete_embedding", "delete_url"}
             /\ Steps(r, req[r].op, "delete") /\ req'[r].status = HTTP_OK)
               => (/\ index'[n].chunks = {c \in index[n].chunks : c.id \notin req[r].ids}
                   /\ index' = [index EXCEPT ![n].chunks = index'[n].chunks])]_vars

\* C16 witness: a delete_embedding of an id that an earlier delete removed has
\* reported 0 deleted, in a project whose index still holds chunks
C16_Witness ==
    \E r \in Slots :
        /\ req[r].op = "delete_embedding" /\ Done(r)
        /\ req[r].status = HTTP_OK /\ req[r].count = 0
        /\ \E u \in Sources : req[r].id \in pastIds[req[r].project][u]
        /\ index[req[r].project].chunks # {}

\* the call's system override if supplied, otherwise the project's system
EffectivePersona(override, configured) == IF Truthy(override) THEN override ELSE configured

\* C17: a question_project that answers does so in question-with-context mode
\* when the effective persona (the call's override if supplied, else the
\* project's system) is present, and in plain question mode when it is not.
C17_QuestionMode ==
    [][\A r \in Slots :
         (Steps(r, "question_project", "run") /\ req'[r].status = HTTP_OK)
         => LET persona == EffectivePersona(req[r].system, Row(req[r].project).system) IN
            req'[r].type = IF persona \in {None, ""} THEN "question" ELSE "questioncontext"]_vars

\* C17 witness: a question with no override has been answered with context in a
\* project that has a persona, and another in plain mode
C17_Witness ==
    \E r1, r2 \in Slots :
        /\ req[r1].op = "question_project" /\ Done(r1) /\ req[r1].status = HTTP_OK
        /\ req[r1].system = None /\ req[r1].type = "questioncontext"
        /\ req[r2].op = "question_project" /\ Done(r2) /\ req[r2].status = HTTP_OK
        /\ req[r2].system = None /\ req[r2].type = "question"

Ingestions == {"ingest_url", "ingest_file"}

\* C18: the step in which an ingestion calls IndexDocuments stores the chunks
\* whose ids it keeps; persist is called only after IndexDocuments; an ingestion
\* answers success only with both called, and the count it reports is the
\* number of ids IndexDocuments returned.
C18_PersistBeforeAnswer ==
    [][\A r \in Slots :
         (req[r].op \in Ingestions /\ InFlight(r)) =>
            LET n == req[r].project IN
            /\ ("IndexDocuments" \in req'[r].called /\ "IndexDocuments" \notin req[r].called)
                  => /\ {c.id : c \in index'[n].chunks \ index[n].chunks} = req'[r].ids
                     /\ req'[r].pc # "done"
            /\ ("persist" \in req'[r].called /\ "persist" \notin req[r].called)
                  => "IndexDocuments" \in req[r].called
            /\ (req'[r].pc = "done" /\ req'[r].status = HTTP_OK)
                  => /\ {"IndexDocuments", "persist"} \subseteq req'[r].called
                     /\ req'[r].count = Cardinality(req[r].ids)
                     /\ req'[r].ids = req[r].ids]_vars

\* C18 witness: an ingestion has answered success for the chunks it stored
C18_Witness ==
    \E r \in Slots :
        /\ req[r].op \in Ingestions /\ Done(r) /\ req[r].status = HTTP_OK
        /\ req[r].count >= 1 /\ req[r].count = Cardinality(req[r].ids)
        /\ "persist" \in req[r].called
        /\ req[r].ids \subseteq {c.id : c \in index[req[r].project].chunks}

\* the URL sources that have a chunk in n's index
UrlSources(n) == {c.source : c \in {d \in index[n].chunks : IsUrl(d.source)}}

\* list_urls answers with exactly the URL sources that have a chunk, each once,
\* and lists no URL whose chunks are removed
ListsExactly(r) ==
    /\ Range(req'[r].urls) = UrlSources(req[r].project)
    /\ Len(req'[r].urls) = Cardinality(UrlSources(req[r].project))
    /\ \A u \in Urls : SourceIds(req[r].project, u) = {} => u \notin Range(req'[r].urls)

\* C19 as stated: list_urls lists exactly the URL sources that have a chunk, each
\* once; a URL is listed once its ingest_url has succeeded and not listed once
\* its chunks are removed.
C19_Original ==
    [][\A r \in Slots :
         (Steps(r, "list_urls", "run") /\ req'[r].status = HTTP_OK)
         => /\ ListsExactly(r)
            /\ \A u \in Urls :
                  lastIngest[req[r].project][u] >= 0 => u \in Range(req'[r].urls)]_vars

\* C19 amended: the same, with a URL listed once an ingest_url of it has
\* succeeded with at least one chunk stored and none of them removed since.
C19_ListUrls ==
    [][\A r \in Slots :
         (Steps(r, "list_urls", "run") /\ req'[r].status = HTTP_OK)
         => /\ ListsExactly(r)
            /\ \A u \in Urls :
                  lastIngest[req[r].project][u] >= 1 => u \in Range(req'[r].urls)]_vars

\* C19 witness: list_urls has listed once a URL that has two chunks, after its
\* ingest_url succeeded
C19_Witness ==
    \E r \in Slots :
        /\ req[r].op = "list_urls" /\ Done(r) /\ req[r].status = HTTP_OK
        /\ Len(req[r].urls) = 1
        /\ Cardinality(SourceIds(req[r].project, req[r].urls[1])) = 2
        /\ lastIngest[req[r].project][req[r].urls[1]] = 2

\* C20: while a name is deleted and not created again, its index holds no chunk
\* and its upload directory no file, whatever an ingestion still in flight does.
C20_NoWriteAfterDelete ==
    \A n \in gone :
        /\ index[n].chunks = {}
        /\ \A f \in Files : uploads[n].files[f] = ""

\* the file an upload path names is present in n's upload directory
FilePresent(n, source) ==
    LET path == NormPath(source) IN
    /\ IsEntry(path) /\ path[2] = n
    /\ uploads[n].files[path[3]] # ""

\* C21: every chunk whose source is an upload path has its file present in the
\* project's upload directory.
C21_ChunkHasFile ==
    \A n \in Names : \A c \in index[n].chunks :
        ~IsUrl(c.source) => FilePresent(n, c.source)

IngestFileErrors == {"UnsupportedSource", "LoadFailed", "ExtractFailed", "IndexFailed"}

\* C22: when ingest_file has failed for want of a loader, in the loader, in the
\* keyword extraction or in the indexing, the project's upload directory holds
\* the files and contents it held when the request began.
C22_FailedUploadFrame ==
    \A r \in Slots :
        (/\ req[r].op = "ingest_file" /\ Done(r)
         /\ req[r].status # HTTP_OK /\ req[r].err \in IngestFileErrors)
        => uploads[req[r].project].files = req[r].files

====
